---------------------------- MODULE Spec2Model ----------------------------
(***************************************************************************)
(* The "whole of Antarctica" tiler and predictor of deepbedmap.py          *)
(* (section 4.1, lines 666-743): the tile schedule, the per-tile window    *)
(* mapping on the four input rasters, the model call, the border trim and  *)
(* the stitch into the output mosaic Y_hat, and the final export.          *)
(*                                                                         *)
(* Arrays are modelled by their geometry.  The mosaic Y_hat is the list of *)
(* the slice assignments made into it so far: a pixel holds the NaN fill   *)
(* value of np.full exactly when no assignment covers it.  A crop is the   *)
(* pair of slices taken, a prediction is its (rows, columns) shape.        *)
(***************************************************************************)
EXTENDS Integers, Sequences, FiniteSets, TLC

VARIABLES
    final_shape,    \* Shape: extent of the output mosaic
    ary_shape,      \* Shape: nominal tile size in output pixels
    stride,         \* Shape: distance between tile origins
    xtrapad,        \* Shape: extra padding, in primary-grid pixels
    Y_hat,          \* the mosaic: sequence of slice assignments made so far
    steps,          \* the tile origins, in schedule order
    step_no,        \* 1-based position in steps of the current tile (0: none yet)
    y0, y1, x0, x1, \* primary-grid window of the current tile (unbound, and
                    \* never read, before the first tile: 0 then)
    X_tile_crop, W1_tile_crop, W2_tile_crop, W3_tile_crop,
    Y_pred,         \* shape of the current prediction, or None
    pc,             \* position of the script
    err,            \* the exception that ended the run, "" while there is none
    exported        \* TRUE once save_array_to_grid has been called

vars == <<final_shape, ary_shape, stride, xtrapad, Y_hat, steps, step_no,
          y0, y1, x0, x1, X_tile_crop, W1_tile_crop, W2_tile_crop,
          W3_tile_crop, Y_pred, pc, err, exported>>

\* Python's None, as the value of a variable that otherwise holds an array
None == [none |-> TRUE]

\* dataclass Shape(y, x)
Shape(sy, sx) == [y |-> sy, x |-> sx]

-----------------------------------------------------------------------------
(* Program constants *)

\* output pixels per primary-grid (BEDMAP2) pixel: the literal 4 of the loop
Scale == 4
\* REMA (W1) pixels per primary-grid pixel
RatioW1 == 10
\* MEaSUREs (W2) pixels per primary-grid pixel
RatioW2 == 2
\* BEDMAP2 (X) and accumulation (W3) are on the primary grid itself
RatioX == 1
RatioW3 == 1

\* The configuration the script runs with.
ScriptConfig ==
    [final_shape |-> Shape(18000, 22000), ary_shape |-> Shape(1000, 1000),
     stride |-> Shape(1000, 1000), xtrapad |-> Shape(18, 18)]

-----------------------------------------------------------------------------
(* Bounds of the explored configurations *)

MaxFinal == 24
MinAry == 3
MaxAry == 5
MaxPad == 1

-----------------------------------------------------------------------------
(* Python and numpy primitives *)

Max(a, b) == IF a >= b THEN a ELSE b
Min(a, b) == IF a <= b THEN a ELSE b

\* Python's // for a positive divisor (floor division).
FloorDiv(a, b) == a \div b

\* (mutant) a range that stops short of a last, partial step
RangeSeq_WholeStepsOnly(stop, step) ==
    IF step > 0
    THEN [n \in 1..(IF stop > 0 THEN stop \div step ELSE 0) |-> (n - 1) * step]
    ELSE <<>>

\* list(range(0, stop, step)) for step # 0; range() raises on step = 0.
RangeSeq(stop, step) ==
    IF step > 0
    THEN [n \in 1..(IF stop > 0 THEN (stop + step - 1) \div step ELSE 0)
              |-> (n - 1) * step]
    ELSE [n \in 1..(IF stop < 0 THEN (-stop - step - 1) \div (-step) ELSE 0)
              |-> (n - 1) * step]

\* slice(start, stop).indices(len): the bounds numpy actually uses.
ClampIndex(a, len) ==
    IF a < 0 THEN Max(a + len, 0) ELSE Min(a, len)

SliceIndices(sl, len) == <<ClampIndex(sl[1], len), ClampIndex(sl[2], len)>>

\* number of elements selected by slice(start, stop) on an axis of length len
SliceLen(sl, len) ==
    LET ix == SliceIndices(sl, len) IN Max(0, ix[2] - ix[1])

\* numpy assignment target[...] = value broadcasts an axis of length 1
Broadcastable(vlen, tlen) == vlen = tlen \/ vlen = 1

-----------------------------------------------------------------------------
(* The tile schedule *)

\* range(0, final_shape.y, stride.y) / range(0, final_shape.x, stride.x)
\* raise ValueError on a zero step.  The inner range is only built when the
\* outer one yields a first y_step.
StepsRaises(final, strd) ==
    \/ strd.y = 0
    \/ (Len(RangeSeq(final.y, strd.y)) > 0 /\ strd.x = 0)

\* steps after the nested loops: y outer, x inner.
BuildStepList(final, strd) ==
    LET ys == RangeSeq(final.y, strd.y)
        xs == RangeSeq(final.x, strd.x)
        nx == Len(xs)
    IN  [n \in 1..(Len(ys) * nx) |->
            Shape(ys[((n - 1) \div nx) + 1], xs[((n - 1) % nx) + 1])]

-----------------------------------------------------------------------------
(* The window mapper *)

\* (mutant) one primary-grid pixel too many on the near side
WindowLo_ExtraPixel(origin, pad) == Max(0, FloorDiv(origin, Scale) - pad - 2)

\* (mutant) the extra context pixel forgotten on the near side
WindowLo_NoContext(origin, pad) == Max(0, FloorDiv(origin, Scale) - pad)

\* y0 = max(0, (step.y // 4) - xtrapad.y - 1)
WindowLo(origin, pad) == Max(0, FloorDiv(origin, Scale) - pad - 1)

\* (mutant) the far side not cut at the source's edge
WindowHi_NoClamp(origin, ary, pad, final) ==
    FloorDiv(origin + ary, Scale) + pad + 1

\* (mutant) the far side rounded up instead of down
WindowHi_Ceil(origin, ary, pad, final) ==
    Min(FloorDiv(final, Scale), FloorDiv(origin + ary + Scale - 1, Scale) + pad + 1)

\* y1 = min(final_shape.y // 4, ((step.y + ary_shape.y) // 4) + xtrapad.y + 1)
WindowHi(origin, ary, pad, final) ==
    Min(FloorDiv(final, Scale), FloorDiv(origin + ary, Scale) + pad + 1)

\* (mutant) the ratio applied to the start of the slice only
CropSlice_EndUnscaled(lo, hi, ratio) == <<lo * ratio, hi>>

\* the slice lo * ratio : hi * ratio taken from a source raster
CropSlice(lo, hi, ratio) == <<lo * ratio, hi * ratio>>

\* X_tile[:, :, y0:y1, x0:x1] and its scaled siblings: the slices taken
TileCrop(ylo, yhi, xlo, xhi, ratio) ==
    [ys |-> CropSlice(ylo, yhi, ratio), xs |-> CropSlice(xlo, xhi, ratio)]

\* Extent of a source raster: the rasters cover the mosaic's area, at
\* final_shape // 4 primary-grid pixels times the source's ratio.
SourceExtent(final, ratio) ==
    Shape(FloorDiv(final.y, Scale) * ratio, FloorDiv(final.x, Scale) * ratio)

\* shape of a crop: the slices applied to the source raster
CropShape(crop, final, ratio) ==
    Shape(SliceLen(crop.ys, SourceExtent(final, ratio).y),
          SliceLen(crop.xs, SourceExtent(final, ratio).x))

-----------------------------------------------------------------------------
(* The model *)

\* Rows (columns) of the prediction for n primary-grid input rows (columns):
\* the generator consumes one primary-grid pixel of context on every side and
\* upsamples by 4.
ModelOutLen(n) == Scale * (n - 2)

\* The generator cannot produce a tensor of negative size.  (An input of
\* exactly two rows or columns is let through with an empty prediction; no
\* property below rests on such a tile.)
ForwardRaises(inshape) == inshape.y < 2 \/ inshape.x < 2

ForwardShape(inshape) == Shape(ModelOutLen(inshape.y), ModelOutLen(inshape.x))

-----------------------------------------------------------------------------
(* Border trim and stitch *)

\* y_slice = slice((y0 + xtrapad.y + 1) * 4, (y1 - xtrapad.y - 1) * 4)
MosaicSlice(lo, hi, pad) == <<(lo + pad + 1) * Scale, (hi - pad - 1) * Scale>>

\* xtrapad.y * 4 : -xtrapad.y * 4
TrimSlice(pad) == <<pad * Scale, -(pad * Scale)>>

\* shape of Y_pred.array[0, :, trim_y, trim_x] (without the channel axis)
TrimmedShape(pred, pad) ==
    Shape(SliceLen(TrimSlice(pad.y), pred.y), SliceLen(TrimSlice(pad.x), pred.x))

\* the region of the mosaic selected by Y_hat[:, y_slice, x_slice]
TargetRegion(ysl, xsl, final) ==
    [ys |-> SliceIndices(ysl, final.y), xs |-> SliceIndices(xsl, final.x)]

RegionShape(r) == Shape(Max(0, r.ys[2] - r.ys[1]), Max(0, r.xs[2] - r.xs[1]))

\* (mutant) only the rows of the value are compared with the target
StitchRaises_RowsOnly(value, target) == ~ Broadcastable(value.y, target.y)

\* numpy raises ValueError when the value cannot be broadcast to the target
StitchRaises(value, target) ==
    ~ (Broadcastable(value.y, target.y) /\ Broadcastable(value.x, target.x))

-----------------------------------------------------------------------------
(* The mosaic *)

\* pixel (py, px) lies in region r
InRegion(py, px, r) ==
    /\ r.ys[1] <= py /\ py < r.ys[2]
    /\ r.xs[1] <= px /\ px < r.xs[2]

\* pixel (py, px) still holds the np.nan fill value
IsNaN(py, px) == \A n \in 1..Len(Y_hat) : ~ InRegion(py, px, Y_hat[n].region)

\* two regions share a pixel
Overlap(r, q) ==
    /\ Max(r.ys[1], q.ys[1]) < Min(r.ys[2], q.ys[2])
    /\ Max(r.xs[1], q.xs[1]) < Min(r.xs[2], q.xs[2])

-----------------------------------------------------------------------------
(* Configurations *)

\* The boundary scenario: a 1000 x 1000 mosaic cut into 400 x 400 tiles.
BoundaryScenario ==
    [final_shape |-> Shape(1000, 1000), ary_shape |-> Shape(400, 400),
     stride |-> Shape(400, 400), xtrapad |-> Shape(18, 18)]

\* The window scenario: 100 x 100 tiles, among them the one at (400, 400).
WindowScenario ==
    [final_shape |-> Shape(1000, 1000), ary_shape |-> Shape(100, 100),
     stride |-> Shape(100, 100), xtrapad |-> Shape(18, 18)]

\* The same mosaic and tiles with a stride of half a tile: tiles overlap.
OverlapScenario ==
    [final_shape |-> Shape(1000, 1000), ary_shape |-> Shape(400, 400),
     stride |-> Shape(200, 200), xtrapad |-> Shape(18, 18)]

\* The same mosaic and tiles with a stride larger than a tile: seams.
SeamScenario ==
    [final_shape |-> Shape(1000, 1000), ary_shape |-> Shape(400, 400),
     stride |-> Shape(500, 500), xtrapad |-> Shape(18, 18)]

\* The boundary scenario without extra padding.
NoPadScenario ==
    [final_shape |-> Shape(1000, 1000), ary_shape |-> Shape(400, 400),
     stride |-> Shape(400, 400), xtrapad |-> Shape(0, 0)]

FinalSizes == 1..MaxFinal
ArySizes == MinAry..MaxAry
PadSizes == 0..MaxPad
\* strides on either side of the tile sizes, and the non-positive ones
StrideSizes == {-1, 0} \cup ((MinAry - 1)..(MaxAry + 1))

Shapes(S) == {Shape(sy, sx) : sy \in S, sx \in S}

\* stride == ary_shape, as in the script
TilingConfigs ==
    {[final_shape |-> f, ary_shape |-> a, stride |-> a, xtrapad |-> p] :
        f \in Shapes(FinalSizes), a \in Shapes(ArySizes), p \in Shapes(PadSizes)}

\* any stride, on the largest mosaic
StrideConfigs ==
    {[final_shape |-> Shape(MaxFinal, MaxFinal), ary_shape |-> a, stride |-> s,
      xtrapad |-> Shape(MaxPad, MaxPad)] :
        a \in Shapes(ArySizes), s \in Shapes(StrideSizes)}

Configs ==
    {ScriptConfig, BoundaryScenario, WindowScenario, OverlapScenario,
     SeamScenario, NoPadScenario}
        \cup TilingConfigs \cup StrideConfigs

-----------------------------------------------------------------------------
(* The script *)

\* Lines 677-684: the configuration is set and the mosaic is allocated, every
\* pixel np.nan.
Init ==
    /\ \E cfg \in Configs :
          /\ final_shape = cfg.final_shape
          /\ ary_shape = cfg.ary_shape
          /\ stride = cfg.stride
          /\ xtrapad = cfg.xtrapad
    /\ Y_hat = <<>>
    /\ steps = <<>>
    /\ step_no = 0
    /\ y0 = 0 /\ y1 = 0 /\ x0 = 0 /\ x1 = 0
    /\ X_tile_crop = None /\ W1_tile_crop = None
    /\ W2_tile_crop = None /\ W3_tile_crop = None
    /\ Y_pred = None
    /\ pc = "steps"
    /\ err = ""
    /\ exported = FALSE

\* Lines 686-689: the nested loops that fill steps.
BuildSteps ==
    /\ pc = "steps"
    /\ \/ /\ StepsRaises(final_shape, stride)
          /\ pc' = "error"
          /\ err' = "ValueError"
          /\ UNCHANGED steps
       \/ /\ ~ StepsRaises(final_shape, stride)
          /\ steps' = BuildStepList(final_shape, stride)
          /\ pc' = "loop"
          /\ UNCHANGED err
    /\ UNCHANGED <<final_shape, ary_shape, stride, xtrapad, Y_hat, step_no,
                   y0, y1, x0, x1, X_tile_crop, W1_tile_crop, W2_tile_crop,
                   W3_tile_crop, Y_pred, exported>>

\* A variant of the loop header that advances two schedule entries at a time.
ComputeWindow_SkipTile ==
    /\ pc = "loop"
    /\ step_no + 1 < Len(steps)
    /\ step_no' = step_no + 2
    /\ LET step == steps[step_no + 2] IN
          /\ y0' = WindowLo(step.y, xtrapad.y)
          /\ y1' = WindowHi(step.y, ary_shape.y, xtrapad.y, final_shape.y)
          /\ x0' = WindowLo(step.x, xtrapad.x)
          /\ x1' = WindowHi(step.x, ary_shape.x, xtrapad.x, final_shape.x)
    /\ pc' = "crop"
    /\ UNCHANGED <<final_shape, ary_shape, stride, xtrapad, Y_hat, steps,
                   X_tile_crop, W1_tile_crop, W2_tile_crop, W3_tile_crop,
                   Y_pred, err, exported>>

\* Lines 691-697: the loop takes the next step and computes its window.
ComputeWindow ==
    /\ pc = "loop"
    /\ step_no < Len(steps)
    /\ step_no' = step_no + 1
    /\ LET step == steps[step_no + 1] IN
          /\ y0' = WindowLo(step.y, xtrapad.y)
          /\ y1' = WindowHi(step.y, ary_shape.y, xtrapad.y, final_shape.y)
          /\ x0' = WindowLo(step.x, xtrapad.x)
          /\ x1' = WindowHi(step.x, ary_shape.x, xtrapad.x, final_shape.x)
    /\ pc' = "crop"
    /\ UNCHANGED <<final_shape, ary_shape, stride, xtrapad, Y_hat, steps,
                   X_tile_crop, W1_tile_crop, W2_tile_crop, W3_tile_crop,
                   Y_pred, err, exported>>

\* Lines 700-708: the four hardcoded crops.
Crop ==
    /\ pc = "crop"
    /\ X_tile_crop' = TileCrop(y0, y1, x0, x1, RatioX)
    /\ W1_tile_crop' = TileCrop(y0, y1, x0, x1, RatioW1)
    /\ W2_tile_crop' = TileCrop(y0, y1, x0, x1, RatioW2)
    /\ W3_tile_crop' = TileCrop(y0, y1, x0, x1, RatioW3)
    /\ pc' = "forward"
    /\ UNCHANGED <<final_shape, ary_shape, stride, xtrapad, Y_hat, steps,
                   step_no, y0, y1, x0, x1, Y_pred, err, exported>>

\* Lines 710-714: the model's prediction for the tile.
Forward ==
    /\ pc = "forward"
    /\ LET inshape == CropShape(X_tile_crop, final_shape, RatioX) IN
          \/ /\ ForwardRaises(inshape)
             /\ pc' = "error"
             /\ err' = "ModelError"
             /\ UNCHANGED Y_pred
          \/ /\ ~ ForwardRaises(inshape)
             /\ Y_pred' = ForwardShape(inshape)
             /\ pc' = "stitch"
             /\ UNCHANGED err
    /\ UNCHANGED <<final_shape, ary_shape, stride, xtrapad, Y_hat, steps,
                   step_no, y0, y1, x0, x1, X_tile_crop, W1_tile_crop,
                   W2_tile_crop, W3_tile_crop, exported>>

\* Lines 716-727: trim the prediction and assign it into the mosaic; a
\* ValueError is re-raised; the crops are released either way.
Stitch ==
    /\ pc = "stitch"
    /\ LET y_slice == MosaicSlice(y0, y1, xtrapad.y)
           x_slice == MosaicSlice(x0, x1, xtrapad.x)
           target == TargetRegion(y_slice, x_slice, final_shape)
           value == TrimmedShape(Y_pred, xtrapad)
       IN  \/ /\ StitchRaises(value, RegionShape(target))
              /\ pc' = "error"
              /\ err' = "ValueError"
              /\ UNCHANGED Y_hat
           \/ /\ ~ StitchRaises(value, RegionShape(target))
              /\ Y_hat' = Append(Y_hat, [tile |-> step_no, region |-> target])
              /\ pc' = "loop"
              /\ UNCHANGED err
    /\ X_tile_crop' = None /\ W1_tile_crop' = None
    /\ W2_tile_crop' = None /\ W3_tile_crop' = None
    /\ UNCHANGED <<final_shape, ary_shape, stride, xtrapad, steps, step_no,
                   y0, y1, x0, x1, Y_pred, exported>>

\* Line 691: steps is exhausted and the loop ends.
LoopExit ==
    /\ pc = "loop"
    /\ step_no = Len(steps)
    /\ pc' = "save"
    /\ UNCHANGED <<final_shape, ary_shape, stride, xtrapad, Y_hat, steps,
                   step_no, y0, y1, x0, x1, X_tile_crop, W1_tile_crop,
                   W2_tile_crop, W3_tile_crop, Y_pred, err, exported>>

\* Lines 736-743: the mosaic is cast to int16 and handed to save_array_to_grid.
SaveGrid ==
    /\ pc = "save"
    /\ exported' = TRUE
    /\ pc' = "done"
    /\ UNCHANGED <<final_shape, ary_shape, stride, xtrapad, Y_hat, steps,
                   step_no, y0, y1, x0, x1, X_tile_crop, W1_tile_crop,
                   W2_tile_crop, W3_tile_crop, Y_pred, err>>

Next ==
    \/ BuildSteps
    \/ ComputeWindow
    \/ Crop
    \/ Forward
    \/ Stitch
    \/ LoopExit
    \/ SaveGrid

Spec == Init /\ [][Next]_vars

\* The script is one sequential thread of control: whenever a statement is
\* left to run, it runs.
FairSpec == Spec /\ WF_vars(Next)

-----------------------------------------------------------------------------
(* Vocabulary of the properties *)

Rows == 0..(final_shape.y - 1)
Cols == 0..(final_shape.x - 1)

\* the run has left the tile loop without an exception
LoopFinished == pc \in {"save", "done"}

NonEmpty(r) == r.ys[1] < r.ys[2] /\ r.xs[1] < r.xs[2]

\* every tile handled so far has written pixels into the mosaic
EveryTileWrote ==
    /\ Len(Y_hat) > 0
    /\ \A n \in 1..Len(Y_hat) : Y_hat[n].tile = n /\ NonEmpty(Y_hat[n].region)

\* the origin of the tile that made the n-th assignment
OriginOf(n) == steps[Y_hat[n].tile]

\* a window has been computed for the current tile
HasWindow == step_no > 0

HasCrops == X_tile_crop # None

CurrentStep == steps[step_no]

CeilDiv4(a) == (a + 3) \div 4

-----------------------------------------------------------------------------
(* C1 *)

\* C1: after a tiling run with stride == ary_shape that completes without
\* error, no pixel of the mosaic still holds NaN: every pixel of
\* [0, final_shape.y) x [0, final_shape.x) has been written, the rows and
\* columns along the four outer edges included.  (Stated for the runs in
\* which every tile wrote pixels.)
C1_NoPixelLeftNaN ==
    (LoopFinished /\ stride = ary_shape /\ EveryTileWrote) =>
        \A py \in Rows : \A px \in Cols : ~ IsNaN(py, px)

-----------------------------------------------------------------------------
(* C2 *)

\* C2: with stride == ary_shape the regions written by two distinct tiles are
\* disjoint: in every reachable state no mosaic pixel has been written more
\* than once, whatever final_shape and (positive) ary_shape are.
C2_WritesDisjoint ==
    (stride = ary_shape) =>
        \A m \in 1..Len(Y_hat) : \A n \in (m + 1)..Len(Y_hat) :
            ~ Overlap(Y_hat[m].region, Y_hat[n].region)

\* Two tiles of a run whose tile size is no multiple of 4 on either axis have
\* both written pixels.
C2_Witness ==
    /\ stride = ary_shape
    /\ ary_shape.y % 4 # 0 /\ ary_shape.x % 4 # 0
    /\ \E m \in 1..Len(Y_hat) : \E n \in (m + 1)..Len(Y_hat) :
          /\ NonEmpty(Y_hat[m].region) /\ NonEmpty(Y_hat[n].region)
          /\ Y_hat[m].region.ys[2] = Y_hat[n].region.ys[1]

-----------------------------------------------------------------------------
(* C3 *)

\* C3: the region a tile writes starts at the tile's origin and ends at
\* min(origin + ary_shape, final_shape) on each axis (for a 1000 x 1000 mosaic
\* and 400 x 400 tiles: (800,800) writes [800,1000) x [800,1000) and (0,0)
\* writes [0,400) x [0,400)).  (Stated for the tiles that wrote pixels.)
C3_RegionAtOrigin ==
    EveryTileWrote => \A n \in 1..Len(Y_hat) :
        /\ Y_hat[n].region.ys =
              <<OriginOf(n).y, Min(OriginOf(n).y + ary_shape.y, final_shape.y)>>
        /\ Y_hat[n].region.xs =
              <<OriginOf(n).x, Min(OriginOf(n).x + ary_shape.x, final_shape.x)>>

-----------------------------------------------------------------------------
(* C4 *)

\* the origins the claim names
C4_Origins ==
    {Shape(i * stride.y, j * stride.x) :
        i \in {a \in 0..(final_shape.y \div stride.y) : a * stride.y < final_shape.y},
        j \in {b \in 0..(final_shape.x \div stride.x) : b * stride.x < final_shape.x}}

\* C4: for a stride positive on both axes the list of tile origins is exactly
\* {(i*stride.y, j*stride.x) : i*stride.y < final_shape.y, j*stride.x <
\* final_shape.x}, each origin once, in row-major order; it starts with (0,0)
\* and its last origin is within one stride of the far edge.
C4_StepsExact ==
    (pc # "steps" /\ stride.y > 0 /\ stride.x > 0) =>
        /\ {steps[n] : n \in 1..Len(steps)} = C4_Origins
        /\ Len(steps) = Cardinality(C4_Origins)
        /\ \A n \in 1..(Len(steps) - 1) :
              \/ steps[n].y < steps[n + 1].y
              \/ (steps[n].y = steps[n + 1].y /\ steps[n].x < steps[n + 1].x)
        /\ steps[1] = Shape(0, 0)
        /\ steps[Len(steps)].y < final_shape.y
        /\ steps[Len(steps)].y + stride.y >= final_shape.y
        /\ steps[Len(steps)].x < final_shape.x
        /\ steps[Len(steps)].x + stride.x >= final_shape.x

\* A schedule of several rows and columns for a mosaic that is no multiple of
\* the stride on either axis.
C4_Witness ==
    /\ pc = "loop"
    /\ stride.y > 0 /\ stride.x > 0 /\ stride.y # stride.x
    /\ final_shape.y % stride.y # 0 /\ final_shape.x % stride.x # 0
    /\ Len(steps) >= 6
    /\ steps[2].y = 0 /\ steps[2].x = stride.x

-----------------------------------------------------------------------------
(* C5 *)

\* the slices a crop takes lie inside a source raster of the given ratio
C5_Within(crop, ratio) ==
    /\ 0 <= crop.ys[1] /\ crop.ys[1] <= crop.ys[2]
    /\ crop.ys[2] <= (final_shape.y \div 4) * ratio
    /\ 0 <= crop.xs[1] /\ crop.xs[1] <= crop.xs[2]
    /\ crop.xs[2] <= (final_shape.x \div 4) * ratio

\* C5: for every scheduled tile and every input source the crop window
\* satisfies 0 <= row_start <= row_end <= source rows and 0 <= col_start <=
\* col_end <= source columns (source extent = final_shape // 4 times the ratio
\* 1, 10, 2 or 1); no window has negative size.
C5_WindowsInBounds ==
    /\ HasWindow =>
          /\ 0 <= y0 /\ y0 <= y1 /\ y1 <= final_shape.y \div 4
          /\ 0 <= x0 /\ x0 <= x1 /\ x1 <= final_shape.x \div 4
    /\ HasCrops =>
          /\ C5_Within(X_tile_crop, 1)
          /\ C5_Within(W1_tile_crop, 10)
          /\ C5_Within(W2_tile_crop, 2)
          /\ C5_Within(W3_tile_crop, 1)

\* The crops of the last tile of a schedule, whose window is cut at the far
\* edge of the sources on both axes.
C5_Witness ==
    /\ HasCrops
    /\ step_no = Len(steps) /\ step_no > 1
    /\ W1_tile_crop.ys[2] = (final_shape.y \div 4) * 10
    /\ W1_tile_crop.xs[2] = (final_shape.x \div 4) * 10
    /\ (CurrentStep.y + ary_shape.y) \div 4 + xtrapad.y + 1 > final_shape.y \div 4
    /\ (CurrentStep.x + ary_shape.x) \div 4 + xtrapad.x + 1 > final_shape.x \div 4
    /\ W1_tile_crop.ys[1] > 0 /\ W1_tile_crop.xs[1] > 0

-----------------------------------------------------------------------------
(* C6 *)

\* C6: for every tile origin and ary_shape, multiples of 4 or not, the
\* primary-grid window is y0 = max(0, floor(origin/4) - xtrapad - 1) and
\* y1 = min(source rows, ceil((origin + ary_shape)/4) + xtrapad + 1), and
\* likewise for columns.
C6_WindowCeil ==
    HasWindow =>
        /\ y0 = Max(0, (CurrentStep.y \div 4) - xtrapad.y - 1)
        /\ y1 = Min(final_shape.y \div 4,
                    CeilDiv4(CurrentStep.y + ary_shape.y) + xtrapad.y + 1)
        /\ x0 = Max(0, (CurrentStep.x \div 4) - xtrapad.x - 1)
        /\ x1 = Min(final_shape.x \div 4,
                    CeilDiv4(CurrentStep.x + ary_shape.x) + xtrapad.x + 1)

\* C6, amended: the upper bound takes the floor, not the ceiling:
\* y1 = min(source rows, floor((origin + ary_shape)/4) + xtrapad + 1); the
\* lower bound is as claimed.
C6_WindowFloor ==
    HasWindow =>
        /\ y0 = Max(0, (CurrentStep.y \div 4) - xtrapad.y - 1)
        /\ y1 = Min(final_shape.y \div 4,
                    ((CurrentStep.y + ary_shape.y) \div 4) + xtrapad.y + 1)
        /\ x0 = Max(0, (CurrentStep.x \div 4) - xtrapad.x - 1)
        /\ x1 = Min(final_shape.x \div 4,
                    ((CurrentStep.x + ary_shape.x) \div 4) + xtrapad.x + 1)

\* A window cut by neither edge, for a tile whose far side is no multiple
\* of 4: floor and ceiling differ.
C6_Witness ==
    /\ HasWindow
    /\ (CurrentStep.y + ary_shape.y) % 4 # 0
    /\ (CurrentStep.x + ary_shape.x) % 4 # 0
    /\ (CurrentStep.y \div 4) - xtrapad.y - 1 >= 0
    /\ (CurrentStep.x \div 4) - xtrapad.x - 1 >= 0
    /\ y1 < final_shape.y \div 4 /\ x1 < final_shape.x \div 4
    /\ stride = ary_shape

-----------------------------------------------------------------------------
(* C7 *)

\* the window of the current tile is cut by no source edge
C7_Unclamped ==
    /\ (CurrentStep.y \div 4) - xtrapad.y - 1 >= 0
    /\ (CurrentStep.x \div 4) - xtrapad.x - 1 >= 0
    /\ ((CurrentStep.y + ary_shape.y) \div 4) + xtrapad.y + 1 <= final_shape.y \div 4
    /\ ((CurrentStep.x + ary_shape.x) \div 4) + xtrapad.x + 1 <= final_shape.x \div 4

C7_Aligned ==
    /\ CurrentStep.y % 4 = 0 /\ CurrentStep.x % 4 = 0
    /\ ary_shape.y % 4 = 0 /\ ary_shape.x % 4 = 0

C7_Span(crop, ratio) ==
    /\ crop.ys[2] - crop.ys[1] = ((ary_shape.y \div 4) + 2 * xtrapad.y + 2) * ratio
    /\ crop.xs[2] - crop.xs[1] = ((ary_shape.x \div 4) + 2 * xtrapad.x + 2) * ratio
    /\ CropShape(crop, final_shape, ratio) =
          Shape(((ary_shape.y \div 4) + 2 * xtrapad.y + 2) * ratio,
                ((ary_shape.x \div 4) + 2 * xtrapad.x + 2) * ratio)

\* C7: for a tile whose window is not cut at a source edge and whose origin
\* and ary_shape are multiples of 4, the window spans
\* (ary_shape/4 + 2*xtrapad + 2) * k pixels per axis in a source of ratio k
\* (origin (400,400), ary_shape 100, xtrapad 18, k = 10: 630 pixels).
C7_UnclampedSpan ==
    (HasCrops /\ C7_Unclamped /\ C7_Aligned) =>
        /\ C7_Span(X_tile_crop, 1)
        /\ C7_Span(W1_tile_crop, 10)
        /\ C7_Span(W2_tile_crop, 2)
        /\ C7_Span(W3_tile_crop, 1)

\* The tile at (400,400) of the 100 x 100 tiling with xtrapad 18: its REMA
\* crop is 630 x 630.
C7_Witness ==
    /\ HasCrops
    /\ CurrentStep = Shape(400, 400)
    /\ ary_shape = Shape(100, 100) /\ xtrapad = Shape(18, 18)
    /\ C7_Unclamped /\ C7_Aligned
    /\ CropShape(W1_tile_crop, final_shape, 10) = Shape(630, 630)

-----------------------------------------------------------------------------
(* C8 *)

\* C8: with stride.y <= 0 or stride.x <= 0 the run ends with a configuration
\* error raised before any tile is scheduled, cropped, inferred or stitched;
\* it never completes normally with an empty or partial schedule.
C8_BadStrideRaises ==
    ((stride.y <= 0 \/ stride.x <= 0) /\ pc # "steps") =>
        /\ pc = "error" /\ err = "ValueError"
        /\ steps = <<>> /\ step_no = 0 /\ Y_hat = <<>> /\ ~ exported

-----------------------------------------------------------------------------
(* C9 *)

\* C9: for a configuration with stride != ary_shape on either axis the run
\* fails with a fatal configuration error and no tile is written into the
\* mosaic (stated here by its second half: no tile ever writes a pixel).
C9_MismatchNeverWrites ==
    (stride # ary_shape) => ~ EveryTileWrote

-----------------------------------------------------------------------------
(* C10 *)

\* C10: a mosaic in which some pixel still holds NaN after the tile loop is
\* reported as a fatal consistency failure and is never handed to
\* save_array_to_grid (stated for the runs configured as the script is, with
\* stride == ary_shape, in which every tile wrote pixels).
C10_NoNaNExported ==
    (exported /\ stride = ary_shape /\ EveryTileWrote) =>
        \A py \in Rows : \A px \in Cols : ~ IsNaN(py, px)

-----------------------------------------------------------------------------
(* C11 *)

\* rows and columns of the target rectangle of the current tile
C11_TargetShape ==
    Shape(SliceLen(<<(y0 + xtrapad.y + 1) * 4, (y1 - xtrapad.y - 1) * 4>>,
                   final_shape.y),
          SliceLen(<<(x0 + xtrapad.x + 1) * 4, (x1 - xtrapad.x - 1) * 4>>,
                   final_shape.x))

\* rows and columns of the trimmed prediction of the current tile
C11_ValueShape ==
    Shape(SliceLen(<<xtrapad.y * 4, -(xtrapad.y * 4)>>, Y_pred.y),
          SliceLen(<<xtrapad.x * 4, -(xtrapad.x * 4)>>, Y_pred.x))

\* the tile about to be stitched has a trimmed prediction that does not fit
\* its target rectangle
C11_Incompatible ==
    /\ pc = "stitch"
    /\ \/ ~ (C11_ValueShape.y = C11_TargetShape.y \/ C11_ValueShape.y = 1)
       \/ ~ (C11_ValueShape.x = C11_TargetShape.x \/ C11_ValueShape.x = 1)

\* C11: if a tile's trimmed prediction is not shape-compatible with its target
\* rectangle, the write raises an error that leaves the mosaic exactly as it
\* was before that tile; after the error nothing happens any more: no later
\* tile is cropped, inferred or stitched and the export is not reached.
C11_MismatchAborts ==
    [][ /\ C11_Incompatible =>
              /\ pc' = "error" /\ err' = "ValueError"
              /\ Y_hat' = Y_hat /\ step_no' = step_no /\ exported' = exported
        /\ pc # "error" ]_vars

\* A run stopped by the ValueError of a tile that had a prediction of
\* positive size and was not the last of the schedule, the mosaic holding the
\* writes of the tiles before it and no other.
C11_Witness ==
    /\ pc = "error" /\ err = "ValueError"
    /\ step_no >= 1 /\ step_no < Len(steps)
    /\ Y_pred.y > 0 /\ Y_pred.x > 0
    /\ Len(Y_hat) = step_no - 1
    /\ ~ exported

-----------------------------------------------------------------------------
(* C12 *)

\* the slices k*y0 : k*y1 and k*x0 : k*x1
C12_Scaled(k) == [ys |-> <<k * y0, k * y1>>, xs |-> <<k * x0, k * x1>>]

\* C12: for every tile the four sources are cropped to the same primary-grid
\* window: X and W3 at [y0,y1) x [x0,x1), W1 at [10*y0,10*y1) x
\* [10*x0,10*x1), W2 at [2*y0,2*y1) x [2*x0,2*x1); each crop's size is the
\* source's ratio times the size of the primary window, also for tiles cut at
\* a mosaic edge.
C12_SameWindow ==
    HasCrops =>
        /\ X_tile_crop = C12_Scaled(1)
        /\ W3_tile_crop = C12_Scaled(1)
        /\ W1_tile_crop = C12_Scaled(10)
        /\ W2_tile_crop = C12_Scaled(2)
        /\ CropShape(X_tile_crop, final_shape, 1) = Shape(y1 - y0, x1 - x0)
        /\ CropShape(W3_tile_crop, final_shape, 1) = Shape(y1 - y0, x1 - x0)
        /\ CropShape(W1_tile_crop, final_shape, 10) =
              Shape(10 * (y1 - y0), 10 * (x1 - x0))
        /\ CropShape(W2_tile_crop, final_shape, 2) =
              Shape(2 * (y1 - y0), 2 * (x1 - x0))

\* The crops of a tile whose window is cut at the near edge in y and at the
\* far edge in x.
C12_Witness ==
    /\ HasCrops
    /\ (CurrentStep.y \div 4) - xtrapad.y - 1 < 0
    /\ ((CurrentStep.x + ary_shape.x) \div 4) + xtrapad.x + 1 > final_shape.x \div 4
    /\ x0 > 0
    /\ y1 - y0 >= 3 /\ x1 - x0 >= 3
    /\ W1_tile_crop.xs[2] - W1_tile_crop.xs[1] = 10 * (x1 - x0)
    /\ W2_tile_crop.ys[2] - W2_tile_crop.ys[1] = 2 * (y1 - y0)

-----------------------------------------------------------------------------
(* C13 *)

\* C13: for every xtrapad >= 0 on each axis, xtrapad = 0 included, the
\* interior taken from a prediction of P rows and Q columns is rows
\* [4*xtrapad.y, P - 4*xtrapad.y) and columns [4*xtrapad.x, Q - 4*xtrapad.x):
\* its size is (P - 8*xtrapad.y) x (Q - 8*xtrapad.x).  (Stated for the
\* predictions of positive size that are at least as large as the trim.)
C13_InteriorSize ==
    (/\ pc = "stitch"
     /\ Y_pred.y > 0 /\ Y_pred.x > 0
     /\ Y_pred.y >= 8 * xtrapad.y /\ Y_pred.x >= 8 * xtrapad.x) =>
        /\ SliceIndices(TrimSlice(xtrapad.y), Y_pred.y) =
              <<4 * xtrapad.y, Y_pred.y - 4 * xtrapad.y>>
        /\ SliceIndices(TrimSlice(xtrapad.x), Y_pred.x) =
              <<4 * xtrapad.x, Y_pred.x - 4 * xtrapad.x>>
        /\ TrimmedShape(Y_pred, xtrapad) =
              Shape(Y_pred.y - 8 * xtrapad.y, Y_pred.x - 8 * xtrapad.x)

-----------------------------------------------------------------------------
(* C14 *)

\* The stage of the n-th scheduled tile, read off the position of the loop:
\* tiles before the current one have been written, tiles after it have not
\* been started, and the current one is where the program counter is.  A run
\* that raised stays at the stage its tile had reached: a failed forward pass
\* leaves it at windows-computed, a failed assignment (whose right-hand side,
\* the trimmed view, is evaluated first) leaves it at trimmed.
C14_Stage(n) ==
    IF n < step_no THEN "stitched"
    ELSE IF n > step_no THEN "scheduled"
    ELSE CASE pc \in {"crop", "forward"} -> "windows-computed"
           [] pc = "stitch" -> "inferred"
           [] pc \in {"loop", "save", "done"} -> "stitched"
           [] pc = "error" /\ err = "ModelError" -> "windows-computed"
           [] OTHER -> "trimmed"

\* One step of a tile along scheduled -> windows-computed -> inferred ->
\* trimmed -> stitched.  Lines 719-723 trim and assign in one statement, so
\* a successful step from inferred passes trimmed on its way to stitched.
C14_StageSteps ==
    { <<"scheduled", "windows-computed">>,
      <<"windows-computed", "inferred">>,
      <<"inferred", "trimmed">>,
      <<"inferred", "stitched">> }

C14_InFlight ==
    { n \in 1..Len(steps) : C14_Stage(n) \notin {"scheduled", "stitched"} }

C14_AllStitched ==
    /\ step_no = Len(steps)
    /\ \A n \in 1..Len(steps) : C14_Stage(n) = "stitched"
    /\ Len(Y_hat) = Len(steps)

C14_Order ==
    /\ steps # <<>> => steps' = steps
    /\ \A n \in 1..Len(steps) :
          \/ C14_Stage(n)' = C14_Stage(n)
          \/ <<C14_Stage(n), C14_Stage(n)'>> \in C14_StageSteps
    /\ Cardinality({ n \in 1..Len(steps) : C14_Stage(n)' # C14_Stage(n) }) <= 1
    /\ \A n \in 1..Len(steps) :
          (C14_Stage(n) = "scheduled" /\ C14_Stage(n)' # "scheduled") =>
              /\ \A m \in 1..(n - 1) : C14_Stage(m) = "stitched"
              /\ \A m \in (n + 1)..Len(steps) : C14_Stage(m) = "scheduled"
              /\ y0' = WindowLo(steps[n].y, xtrapad.y)
              /\ x0' = WindowLo(steps[n].x, xtrapad.x)
    /\ pc = "error" => pc' = "error"

C14_Sequential ==
    /\ Cardinality(C14_InFlight) <= 1
    /\ \A i \in 1..Len(Y_hat) : Y_hat[i].tile = i
    /\ pc \in {"save", "done"} => C14_AllStitched

\* C14: every scheduled tile goes through scheduled, windows-computed,
\* inferred, trimmed, stitched in that order, never back and never twice;
\* tiles are taken in schedule order, a tile's windows are computed only once
\* every earlier tile is stitched, and at most one tile is in flight; a run in
\* which nothing raises ends with every scheduled tile stitched.
C14_TileLifecycle ==
    /\ [][C14_Order]_vars
    /\ [] C14_Sequential
    /\ <> (pc = "error" \/ (pc = "done" /\ C14_AllStitched))

C14_Witness ==
    /\ pc = "done"
    /\ Len(steps) >= 4
    /\ steps[2].y = steps[1].y /\ steps[Len(steps)].y > steps[1].y
    /\ C14_AllStitched
    /\ \A i \in 1..Len(Y_hat) : NonEmpty(Y_hat[i].region)

-----------------------------------------------------------------------------
(* C15 *)

C15_MultiplesOf4 ==
    /\ final_shape.y % 4 = 0 /\ final_shape.x % 4 = 0
    /\ ary_shape.y % 4 = 0 /\ ary_shape.x % 4 = 0
    /\ stride = ary_shape

C15_TargetLo(lo, pad) == (lo + pad + 1) * 4

C15_TargetHi(hi, pad) == (hi - pad - 1) * 4

C15_Target ==
    TargetRegion(MosaicSlice(y0, y1, xtrapad.y), MosaicSlice(x0, x1, xtrapad.x),
                 final_shape)

\* C15: with a model that returns 4*(n-2) rows and columns, in a run whose
\* final_shape and ary_shape = stride are multiples of 4 every tile's trimmed
\* interior has exactly the shape of its target slice
\* [(y0+xtrapad.y+1)*4, (y1-xtrapad.y-1)*4) x [(x0+xtrapad.x+1)*4,
\* (x1-xtrapad.x-1)*4), the slice lies within the mosaic, and the write does
\* not raise.  (Stated for the predictions of positive size; a slice whose
\* start is not below its stop selects nothing.)
C15_StitchFits ==
    (/\ pc = "stitch"
     /\ C15_MultiplesOf4
     /\ Y_pred = Shape(4 * (y1 - y0 - 2), 4 * (x1 - x0 - 2))
     /\ Y_pred.y > 0 /\ Y_pred.x > 0) =>
        /\ TrimmedShape(Y_pred, xtrapad) =
              Shape(Max(0, C15_TargetHi(y1, xtrapad.y) - C15_TargetLo(y0, xtrapad.y)),
                    Max(0, C15_TargetHi(x1, xtrapad.x) - C15_TargetLo(x0, xtrapad.x)))
        /\ TrimmedShape(Y_pred, xtrapad) = RegionShape(C15_Target)
        /\ C15_TargetLo(y0, xtrapad.y) < C15_TargetHi(y1, xtrapad.y) =>
              /\ 0 <= C15_TargetLo(y0, xtrapad.y)
              /\ C15_TargetHi(y1, xtrapad.y) <= final_shape.y
        /\ C15_TargetLo(x0, xtrapad.x) < C15_TargetHi(x1, xtrapad.x) =>
              /\ 0 <= C15_TargetLo(x0, xtrapad.x)
              /\ C15_TargetHi(x1, xtrapad.x) <= final_shape.x
        /\ ~ StitchRaises(TrimmedShape(Y_pred, xtrapad), RegionShape(C15_Target))

=============================================================================
